---- MODULE Spec2Model ----
(***************************************************************************)
(* Model of the ATM class of atm-simulator.py: the account record          *)
(* (balance, pin, pin_attempts, transaction_history) and its operations    *)
(* validate_pin, deposit, withdraw, transfer, change_pin and               *)
(* print_mini_statement, and of the session that main() runs on it.        *)
(*                                                                         *)
(* Amounts are Python floats.  A float is modelled as a record             *)
(*   [k |-> "fin", v |-> n]   a finite value n (whole currency units)      *)
(*   [k |-> "inf", v |-> 1]   +inf        [k |-> "inf", v |-> -1]  -inf    *)
(*   [k |-> "nan", v |-> 0]   not-a-number                                 *)
(* with IEEE-754 arithmetic and comparisons on the special values;         *)
(* rounding of finite sums is not modelled.                                *)
(*                                                                         *)
(* Strings are sequences of one-character tokens, so that len() and        *)
(* str.isdigit() are computed character by character.                      *)
(***************************************************************************)
EXTENDS Integers, Sequences, FiniteSets, TLC

VARIABLES
    card_number,          \* self.card_number
    pin,                  \* self.pin
    balance,              \* self.balance
    pin_attempts,         \* self.pin_attempts
    transaction_history,  \* self.transaction_history
    call,                 \* the last method call made on the account, with its arguments
    ret,                  \* the value that call returned
    statement,            \* the lines the last print_mini_statement printed
    pc,                   \* where main() stands: the prompt it waits at
    out,                  \* the messages printed by the last step of main()
    target,               \* main's local target_account
    entered,              \* the last line read by input() or getpass()
    hist_cap              \* the history length up to which a specification explores

vars == <<card_number, pin, balance, pin_attempts, transaction_history, call, ret,
          statement, pc, out, target, entered, hist_cap>>

acct == <<card_number, pin, balance, pin_attempts, transaction_history>>

\* the state of main(): its position, its output and its locals
session == <<pc, out, target, entered>>

----------------------------------------------------------------------------
(* Bounds of the model *)

\* longest transaction history explored
MaxHist == 3

\* largest finite balance explored
MaxBalance == 2000

\* longest transaction history explored for the mini statement
MaxStmtHist == 6

\* longest transaction history explored in a session of main()
MaxSessionHist == 2

----------------------------------------------------------------------------
(* Python floats *)

Fin(n) == [k |-> "fin", v |-> n]

PosInf == [k |-> "inf", v |-> 1]

NaN == [k |-> "nan", v |-> 0]

IsFinite(x) == x.k = "fin"

\* unary minus of a float
FNeg(x) ==
    IF x.k = "nan" THEN NaN
    ELSE IF x.k = "inf" THEN [k |-> "inf", v |-> -(x.v)]
    ELSE Fin(-(x.v))

\* x + y on floats: nan is absorbing and inf + -inf is nan
FAdd(x, y) ==
    IF x.k = "nan" \/ y.k = "nan" THEN NaN
    ELSE IF x.k = "inf" /\ y.k = "inf" THEN (IF x.v = y.v THEN x ELSE NaN)
    ELSE IF x.k = "inf" THEN x
    ELSE IF y.k = "inf" THEN y
    ELSE Fin(x.v + y.v)

\* x - y on floats
FSub(x, y) == FAdd(x, FNeg(y))

\* x < y on floats: every comparison with nan is false
FLt(x, y) ==
    IF x.k = "nan" \/ y.k = "nan" THEN FALSE
    ELSE IF x.k = "inf" /\ y.k = "inf" THEN x.v < y.v
    ELSE IF x.k = "inf" THEN x.v < 0
    ELSE IF y.k = "inf" THEN y.v > 0
    ELSE x.v < y.v

\* x <= y on floats
FLe(x, y) ==
    IF x.k = "nan" \/ y.k = "nan" THEN FALSE
    ELSE x = y \/ FLt(x, y)

\* x >= y on floats
FGe(x, y) == FLe(y, x)

----------------------------------------------------------------------------
(* Python strings *)

DecimalDigits == {"0", "1", "2", "3", "4", "5", "6", "7", "8", "9"}

\* characters outside 0-9 for which str.isdigit() is true: U+00B2 is
\* SUPERSCRIPT TWO (Numeric_Type=Digit)
OtherDigits == {"U+00B2"}

\* c.isdigit() for a single character
IsDigitChar(c) == c \in DecimalDigits \cup OtherDigits

\* s.isdigit(): at least one character and every character a digit
IsDigit(s) == Len(s) > 0 /\ \A i \in 1..Len(s) : IsDigitChar(s[i])

\* every character of s is one of the decimal digits 0-9
AllDecimal(s) == \A i \in 1..Len(s) : s[i] \in DecimalDigits

----------------------------------------------------------------------------
(* ATM.__init__ *)

InitCard == <<"1", "2", "3", "4">>

InitPin == <<"5", "4", "7", "2">>

InitBalance == 1000

max_pin_attempts == 3

NoCall == [op |-> "none"]

\* the account as ATM() constructs it, before any call
InitAccount ==
    /\ card_number = InitCard
    /\ pin = InitPin
    /\ balance = Fin(InitBalance)
    /\ pin_attempts = 0
    /\ transaction_history = <<>>
    /\ call = NoCall
    /\ ret = FALSE
    /\ statement = <<>>

\* main() is not running: the methods are called directly
NoSession ==
    /\ pc = "not_started"
    /\ out = <<>>
    /\ target = <<>>
    /\ entered = <<>>

Init ==
    /\ InitAccount
    /\ NoSession
    /\ hist_cap = MaxHist

----------------------------------------------------------------------------
(* Inputs *)

\* amounts a caller passes: float(input(...)) accepts "inf" and "nan"
Amounts == {Fin(-1000), Fin(0), Fin(1000), PosInf, NaN}

\* strings entered as a PIN or as a new PIN
PinInputs ==
    { InitPin,
      <<"9", "9", "9", "9">>,
      <<"1", "2", "a", "4">>,
      <<"1", "2", "U+00B2", "4">>,
      <<"9", "9", "9">>,
      <<"9", "9", "9", "9", "9">>,
      <<>> }

\* target account identifiers
Targets == {<<>>, <<"4", "2">>}

----------------------------------------------------------------------------
(* ATM._record_transaction *)

Transaction(transaction_type, amount, bal) ==
    [type |-> transaction_type, amount |-> amount, balance |-> bal]

\* mutant: the new record is put in front of the history
RecordTransactionFront(transaction_type, amount, bal) ==
    <<Transaction(transaction_type, amount, bal)>> \o transaction_history

\* the history after _record_transaction, called once self.balance is bal
RecordTransaction(transaction_type, amount, bal) ==
    Append(transaction_history, Transaction(transaction_type, amount, bal))

\* the model explores histories of at most hist_cap entries and finite
\* balances of at most MaxBalance
WithinBounds(bal) ==
    /\ Len(transaction_history) < hist_cap
    /\ IsFinite(bal) => bal.v <= MaxBalance

----------------------------------------------------------------------------
(* ATM.validate_pin *)

\* mutant: the card blocks only once the counter has passed the maximum
IsBlockedGt(n) == n > max_pin_attempts

\* mutant: the card blocks one failed attempt early
IsBlockedEarly(n) == n >= max_pin_attempts - 1

\* the lockout test at the head of validate_pin
IsBlocked(n) == n >= max_pin_attempts

Blocked == IsBlocked(pin_attempts)

\* mutant: the PIN is compared before the lockout test
validate_pin_late_block(p) ==
    /\ call' = [op |-> "validate_pin", pin |-> p]
    /\ IF p = pin
       THEN /\ pin_attempts' = 0
            /\ ret' = TRUE
            /\ UNCHANGED <<card_number, pin, balance, transaction_history>>
       ELSE IF IsBlocked(pin_attempts)
       THEN /\ ret' = FALSE
            /\ UNCHANGED acct
       ELSE /\ pin_attempts' = pin_attempts + 1
            /\ ret' = FALSE
            /\ UNCHANGED <<card_number, pin, balance, transaction_history>>

\* mutant: a successful validation does not reset the counter
validate_pin_no_reset(p) ==
    /\ call' = [op |-> "validate_pin", pin |-> p]
    /\ IF IsBlocked(pin_attempts)
       THEN /\ ret' = FALSE
            /\ UNCHANGED acct
       ELSE IF p = pin
       THEN /\ ret' = TRUE
            /\ UNCHANGED acct
       ELSE /\ pin_attempts' = pin_attempts + 1
            /\ ret' = FALSE
            /\ UNCHANGED <<card_number, pin, balance, transaction_history>>

validate_pin(p) ==
    /\ call' = [op |-> "validate_pin", pin |-> p]
    /\ IF IsBlocked(pin_attempts)
       THEN /\ ret' = FALSE
            /\ UNCHANGED acct
       ELSE IF p = pin
       THEN /\ pin_attempts' = 0
            /\ ret' = TRUE
            /\ UNCHANGED <<card_number, pin, balance, transaction_history>>
       ELSE /\ pin_attempts' = pin_attempts + 1
            /\ ret' = FALSE
            /\ UNCHANGED <<card_number, pin, balance, transaction_history>>

(* ATM.deposit *)

\* mutant: a zero amount passes the guard
DepositGuardNonNeg(amount) == FLe(Fin(0), amount)

\* amount > 0
DepositGuard(amount) == FLt(Fin(0), amount)

deposit(amount) ==
    /\ call' = [op |-> "deposit", amount |-> amount]
    /\ IF DepositGuard(amount)
       THEN /\ WithinBounds(FAdd(balance, amount))
            /\ balance' = FAdd(balance, amount)
            /\ transaction_history' = RecordTransaction(<<"Deposit">>, amount, balance')
            /\ ret' = TRUE
            /\ UNCHANGED <<card_number, pin, pin_attempts>>
       ELSE /\ ret' = FALSE
            /\ UNCHANGED acct

(* ATM.withdraw *)

\* 0 < amount <= self.balance
WithdrawGuard(amount) == FLt(Fin(0), amount) /\ FLe(amount, balance)

\* self.balance -= amount
WithdrawBalance(amount) == FSub(balance, amount)

\* mutant: the record carries the amount without its minus sign
withdraw_records_positive(amount) ==
    /\ call' = [op |-> "withdraw", amount |-> amount]
    /\ IF WithdrawGuard(amount)
       THEN /\ WithinBounds(WithdrawBalance(amount))
            /\ balance' = WithdrawBalance(amount)
            /\ transaction_history' = RecordTransaction(<<"Withdrawal">>, amount, balance')
            /\ ret' = TRUE
            /\ UNCHANGED <<card_number, pin, pin_attempts>>
       ELSE /\ ret' = FALSE
            /\ UNCHANGED acct

withdraw(amount) ==
    /\ call' = [op |-> "withdraw", amount |-> amount]
    /\ IF WithdrawGuard(amount)
       THEN /\ WithinBounds(WithdrawBalance(amount))
            /\ balance' = WithdrawBalance(amount)
            /\ transaction_history' = RecordTransaction(<<"Withdrawal">>, FNeg(amount), balance')
            /\ ret' = TRUE
            /\ UNCHANGED <<card_number, pin, pin_attempts>>
       ELSE /\ ret' = FALSE
            /\ UNCHANGED acct

(* ATM.transfer *)

\* mutant: a transfer of the whole balance is refused
TransferGuardStrict(amount) == FLt(Fin(0), amount) /\ FLt(amount, balance)

\* 0 < amount <= self.balance
TransferGuard(amount) == FLt(Fin(0), amount) /\ FLe(amount, balance)

\* f'Transfer to {target_account}'
TransferType(target_account) == <<"Transfer to ">> \o target_account

transfer(amount, target_account) ==
    /\ call' = [op |-> "transfer", amount |-> amount, target |-> target_account]
    /\ IF TransferGuard(amount)
       THEN /\ WithinBounds(FSub(balance, amount))
            /\ balance' = FSub(balance, amount)
            /\ transaction_history' =
                   RecordTransaction(TransferType(target_account), FNeg(amount), balance')
            /\ ret' = TRUE
            /\ UNCHANGED <<card_number, pin, pin_attempts>>
       ELSE /\ ret' = FALSE
            /\ UNCHANGED acct

(* ATM.change_pin *)

ChangePinGuard(new_pin) == Len(new_pin) = 4 /\ IsDigit(new_pin)

\* mutant: the pin is assigned before the guard is tested
change_pin_assign_first(new_pin) ==
    /\ call' = [op |-> "change_pin", pin |-> new_pin]
    /\ pin' = new_pin
    /\ IF ChangePinGuard(new_pin)
       THEN /\ WithinBounds(balance)
            /\ transaction_history' = RecordTransaction(<<"PIN Change">>, Fin(0), balance)
            /\ ret' = TRUE
            /\ UNCHANGED <<card_number, balance, pin_attempts>>
       ELSE /\ ret' = FALSE
            /\ UNCHANGED <<card_number, balance, pin_attempts, transaction_history>>

\* mutant: a successful PIN change also clears the failure counter
change_pin_resets_attempts(new_pin) ==
    /\ call' = [op |-> "change_pin", pin |-> new_pin]
    /\ IF ChangePinGuard(new_pin)
       THEN /\ WithinBounds(balance)
            /\ pin' = new_pin
            /\ pin_attempts' = 0
            /\ transaction_history' = RecordTransaction(<<"PIN Change">>, Fin(0), balance)
            /\ ret' = TRUE
            /\ UNCHANGED <<card_number, balance>>
       ELSE /\ ret' = FALSE
            /\ UNCHANGED acct

change_pin(new_pin) ==
    /\ call' = [op |-> "change_pin", pin |-> new_pin]
    /\ IF ChangePinGuard(new_pin)
       THEN /\ WithinBounds(balance)
            /\ pin' = new_pin
            /\ transaction_history' = RecordTransaction(<<"PIN Change">>, Fin(0), balance)
            /\ ret' = TRUE
            /\ UNCHANGED <<card_number, balance, pin_attempts>>
       ELSE /\ ret' = FALSE
            /\ UNCHANGED acct

(* ATM.print_mini_statement *)

\* abs(x) on floats
FAbs(x) ==
    IF x.k = "nan" THEN NaN
    ELSE IF x.k = "inf" THEN PosInf
    ELSE Fin(IF x.v < 0 THEN -(x.v) ELSE x.v)

\* the number of transactions of the mini statement
MiniStatementSize == 5

\* mutant: the slice h[:n], the oldest entries
FirstEntries(h, n) == SubSeq(h, 1, IF Len(h) < n THEN Len(h) ELSE n)

\* mutant: no slice at all
AllEntries(h, n) == h

\* the slice h[-n:] of a list, for n > 0: the last n entries, or all of h
\* when it has fewer
LastEntries(h, n) == SubSeq(h, (IF Len(h) - n < 0 THEN 0 ELSE Len(h) - n) + 1, Len(h))

\* the line printed for one transaction: its type, abs(amount) and balance
StatementLine(t) == [type |-> t.type, amount |-> FAbs(t.amount), balance |-> t.balance]

print_mini_statement ==
    /\ call' = [op |-> "print_mini_statement"]
    /\ statement' =
           LET shown == LastEntries(transaction_history, MiniStatementSize)
           IN  [i \in 1..Len(shown) |-> StatementLine(shown[i])]
    /\ UNCHANGED <<acct, ret>>

----------------------------------------------------------------------------
(* Any sequence of calls on one account *)

\* what a direct call of a method other than print_mini_statement leaves alone
DirectCall == UNCHANGED <<statement, session, hist_cap>>

ValidatePin == \E p \in PinInputs : validate_pin(p) /\ DirectCall

Deposit == \E a \in Amounts : deposit(a) /\ DirectCall

Withdraw == \E a \in Amounts : withdraw(a) /\ DirectCall

Transfer == \E a \in Amounts : \E t \in Targets : transfer(a, t) /\ DirectCall

ChangePin == \E p \in PinInputs : change_pin(p) /\ DirectCall

Next ==
    \/ ValidatePin
    \/ Deposit
    \/ Withdraw
    \/ Transfer
    \/ ChangePin

Spec == Init /\ [][Next]_vars

----------------------------------------------------------------------------
(* Mini statements after longer sequences of successful calls *)

StmtAmounts == {Fin(1000)}

StmtPins == {<<"9", "9", "9", "9">>}

InitStmt ==
    /\ InitAccount
    /\ NoSession
    /\ hist_cap = MaxStmtHist

StmtDeposit == \E a \in StmtAmounts : deposit(a) /\ DirectCall

StmtWithdraw == \E a \in StmtAmounts : withdraw(a) /\ DirectCall

StmtTransfer == \E a \in StmtAmounts : \E t \in Targets : transfer(a, t) /\ DirectCall

StmtChangePin == \E p \in StmtPins : change_pin(p) /\ DirectCall

MiniStatement == print_mini_statement /\ UNCHANGED <<session, hist_cap>>

NextStmt ==
    \/ StmtDeposit
    \/ StmtWithdraw
    \/ StmtTransfer
    \/ StmtChangePin
    \/ MiniStatement

SpecStmt == InitStmt /\ [][NextStmt]_vars

----------------------------------------------------------------------------
(* get_valid_float_input: float(input(prompt)) *)

Digits10 == <<"0", "1", "2", "3", "4", "5", "6", "7", "8", "9">>

\* the value of one decimal digit
DigitValue(c) == (CHOOSE i \in 1..10 : Digits10[i] = c) - 1

\* the value of a non-empty string of decimal digits
RECURSIVE DecimalValue(_)
DecimalValue(s) ==
    IF s = <<>> THEN 0
    ELSE 10 * DecimalValue(SubSeq(s, 1, Len(s) - 1)) + DigitValue(s[Len(s)])

TextInf == <<"i", "n", "f">>

TextNan == <<"n", "a", "n">>

\* float(text) for the texts of the model: an optional sign followed by
\* decimal digits, "inf" or "nan"; anything else raises ValueError (ok is
\* FALSE)
ParseFloat(text) ==
    LET signed == Len(text) > 0 /\ text[1] \in {"-", "+"}
        body == IF signed THEN Tail(text) ELSE text
        magnitude == IF body = TextInf THEN PosInf
                     ELSE IF body = TextNan THEN NaN
                     ELSE Fin(DecimalValue(body))
    IN  IF body = TextInf \/ body = TextNan \/ (Len(body) > 0 /\ AllDecimal(body))
        THEN [ok |-> TRUE,
              value |-> IF signed /\ text[1] = "-" THEN FNeg(magnitude) ELSE magnitude]
        ELSE [ok |-> FALSE]

----------------------------------------------------------------------------
(* main: one session *)

\* lines typed at an amount prompt
AmountTexts ==
    { <<"1", "0", "0", "0">>,
      <<"-", "1", "0", "0", "0">>,
      TextInf,
      <<"a", "b", "c">>,
      <<>> }

\* lines typed at the PIN prompt and at the new-PIN prompt
SessionPins == {InitPin, <<"9", "9", "9", "9">>, <<"1", "2", "a", "4">>}

\* lines typed at the menu prompt
Options == {<<"1">>, <<"2">>, <<"3">>, <<"4">>, <<"5">>, <<"6">>, <<"7">>, <<"8">>}

\* the prompts of get_valid_float_input
AmountPrompts == {"deposit_amount", "withdraw_amount", "transfer_amount"}

\* main has printed INSERT YOUR CARD and waits for the PIN; target_account
\* is not bound yet
InitSession ==
    /\ InitAccount
    /\ pc = "enter_pin"
    /\ out = <<"INSERT YOUR CARD">>
    /\ target = <<>>
    /\ entered = <<>>
    /\ hist_cap = MaxSessionHist

\* what validate_pin(p) prints
ValidatePinOutput(p) ==
    IF IsBlocked(pin_attempts)
    THEN <<"Card blocked. Too many incorrect attempts.">>
    ELSE IF p = pin THEN <<>>
    ELSE << <<"Incorrect PIN. 0 attempts remaining.",
              "Incorrect PIN. 1 attempts remaining.",
              "Incorrect PIN. 2 attempts remaining.">>[max_pin_attempts - pin_attempts] >>

\* mutant: the session ends only once the counter has passed 3
SessionLockedGt(n) == n > 3

\* if atm.pin_attempts >= 3
SessionLocked(n) == n >= 3

\* the authentication loop: one PIN prompt and its validate_pin call
EnterPin(p) ==
    /\ pc = "enter_pin"
    /\ entered' = p
    /\ validate_pin(p)
    /\ IF ret'
       THEN /\ pc' = "menu"
            /\ out' = ValidatePinOutput(p)
       ELSE IF SessionLocked(pin_attempts')
       THEN /\ pc' = "done"
            /\ out' = ValidatePinOutput(p) \o <<"Card blocked. Please contact customer support.">>
       ELSE /\ pc' = "enter_pin"
            /\ out' = ValidatePinOutput(p)
    /\ UNCHANGED <<statement, target, hist_cap>>

\* option 1: check_balance, a pure read
ChooseBalance(option) ==
    /\ pc = "menu"
    /\ option = <<"1">>
    /\ entered' = option
    /\ out' = <<"Balance">>
    /\ pc' = "pause"
    /\ UNCHANGED <<acct, call, ret, statement, target, hist_cap>>

\* options 2, 3, 4 and 5 lead to a prompt
ChoosePrompt(option) ==
    /\ pc = "menu"
    /\ option \in {<<"2">>, <<"3">>, <<"4">>, <<"5">>}
    /\ entered' = option
    /\ out' = <<>>
    /\ pc' = CASE option = <<"2">> -> "deposit_amount"
               [] option = <<"3">> -> "withdraw_amount"
               [] option = <<"4">> -> "transfer_target"
               [] option = <<"5">> -> "new_pin"
    /\ UNCHANGED <<acct, call, ret, statement, target, hist_cap>>

\* option 6: the mini statement
ChooseStatement(option) ==
    /\ pc = "menu"
    /\ option = <<"6">>
    /\ entered' = option
    /\ print_mini_statement
    /\ out' = <<"--- Mini Statement ---">>
    /\ pc' = "pause"
    /\ UNCHANGED <<target, hist_cap>>

\* mutant: exit leaves the menu loop only, and the PIN is asked again
ChooseExitInnerBreak(option) ==
    /\ pc = "menu"
    /\ option = <<"7">>
    /\ entered' = option
    /\ out' = <<"Thank you for using our ATM.">>
    /\ pc' = "enter_pin"
    /\ UNCHANGED <<acct, call, ret, statement, target, hist_cap>>

\* option 7: exit, out of both loops
ChooseExit(option) ==
    /\ pc = "menu"
    /\ option = <<"7">>
    /\ entered' = option
    /\ out' = <<"Thank you for using our ATM.">>
    /\ pc' = "done"
    /\ UNCHANGED <<acct, call, ret, statement, target, hist_cap>>

\* mutant: an unrecognised option ends the session
ChooseInvalidExits(option) ==
    /\ pc = "menu"
    /\ option \notin {<<"1">>, <<"2">>, <<"3">>, <<"4">>, <<"5">>, <<"6">>, <<"7">>}
    /\ entered' = option
    /\ out' = <<"Invalid option. Please try again.">>
    /\ pc' = "done"
    /\ UNCHANGED <<acct, call, ret, statement, target, hist_cap>>

\* any other option
ChooseInvalid(option) ==
    /\ pc = "menu"
    /\ option \notin {<<"1">>, <<"2">>, <<"3">>, <<"4">>, <<"5">>, <<"6">>, <<"7">>}
    /\ entered' = option
    /\ out' = <<"Invalid option. Please try again.">>
    /\ pc' = "pause"
    /\ UNCHANGED <<acct, call, ret, statement, target, hist_cap>>

\* mutant: a line that is not a number costs the menu cycle
InvalidAmountToMenu(text) ==
    /\ pc \in AmountPrompts
    /\ ~ParseFloat(text).ok
    /\ entered' = text
    /\ out' = <<"Invalid option. Please try again.">>
    /\ pc' = "pause"
    /\ UNCHANGED <<acct, call, ret, statement, target, hist_cap>>

\* get_valid_float_input, except branch: the same prompt again
InvalidAmount(text) ==
    /\ pc \in AmountPrompts
    /\ ~ParseFloat(text).ok
    /\ entered' = text
    /\ out' = <<"Invalid input. Please enter a number.">>
    /\ UNCHANGED <<acct, call, ret, statement, pc, target, hist_cap>>

\* option 2 once the amount parses; a refused deposit prints nothing
DepositAmount(text) ==
    /\ pc = "deposit_amount"
    /\ ParseFloat(text).ok
    /\ entered' = text
    /\ deposit(ParseFloat(text).value)
    /\ out' = IF ret' THEN <<"Deposit successful!">> ELSE <<>>
    /\ pc' = "pause"
    /\ UNCHANGED <<statement, target, hist_cap>>

\* option 3 once the amount parses
WithdrawAmount(text) ==
    /\ pc = "withdraw_amount"
    /\ ParseFloat(text).ok
    /\ entered' = text
    /\ withdraw(ParseFloat(text).value)
    /\ out' = IF ret' THEN <<"Withdrawal successful!">> ELSE <<"Insufficient funds.">>
    /\ pc' = "pause"
    /\ UNCHANGED <<statement, target, hist_cap>>

\* option 4: the target account is read first
EnterTarget(t) ==
    /\ pc = "transfer_target"
    /\ entered' = t
    /\ target' = t
    /\ out' = <<>>
    /\ pc' = "transfer_amount"
    /\ UNCHANGED <<acct, call, ret, statement, hist_cap>>

\* option 4 once the amount parses
TransferAmount(text) ==
    /\ pc = "transfer_amount"
    /\ ParseFloat(text).ok
    /\ entered' = text
    /\ transfer(ParseFloat(text).value, target)
    /\ out' = IF ret' THEN <<"Transfer successful!">> ELSE <<"Transfer failed.">>
    /\ pc' = "pause"
    /\ UNCHANGED <<statement, target, hist_cap>>

\* option 5
EnterNewPin(p) ==
    /\ pc = "new_pin"
    /\ entered' = p
    /\ change_pin(p)
    /\ out' = IF ret' THEN <<"PIN changed successfully!">> ELSE <<"Invalid PIN format.">>
    /\ pc' = "pause"
    /\ UNCHANGED <<statement, target, hist_cap>>

\* Press Enter to continue: back to the top of the menu loop
PressEnter ==
    /\ pc = "pause"
    /\ entered' = <<>>
    /\ out' = <<>>
    /\ pc' = "menu"
    /\ UNCHANGED <<acct, call, ret, statement, target, hist_cap>>

Authenticate == \E p \in SessionPins : EnterPin(p)

MenuBalance == \E o \in Options : ChooseBalance(o)

MenuPrompt == \E o \in Options : ChoosePrompt(o)

MenuStatement == \E o \in Options : ChooseStatement(o)

MenuExit == \E o \in Options : ChooseExit(o)

MenuInvalid == \E o \in Options : ChooseInvalid(o)

AmountRetry == \E text \in AmountTexts : InvalidAmount(text)

SessionDeposit == \E text \in AmountTexts : DepositAmount(text)

SessionWithdraw == \E text \in AmountTexts : WithdrawAmount(text)

SessionTarget == \E t \in Targets : EnterTarget(t)

SessionTransfer == \E text \in AmountTexts : TransferAmount(text)

SessionChangePin == \E p \in SessionPins : EnterNewPin(p)

NextSession ==
    \/ Authenticate
    \/ MenuBalance
    \/ MenuPrompt
    \/ MenuStatement
    \/ MenuExit
    \/ MenuInvalid
    \/ AmountRetry
    \/ SessionDeposit
    \/ SessionWithdraw
    \/ SessionTarget
    \/ SessionTransfer
    \/ SessionChangePin
    \/ PressEnter

SpecSession == InitSession /\ [][NextSession]_vars

----------------------------------------------------------------------------
(* Properties *)

\* the amount passed to the call that made the step
Arg == call'.amount

\* the step is a call of the method op
Calls(op) == call'.op = op

\* a float is a positive number (finite or +inf)
Positive(x) == (x.k = "fin" /\ x.v > 0) \/ (x.k = "inf" /\ x.v = 1)

\* the history grew by exactly the one record t, at its end
AppendedOne(t) == transaction_history' = Append(transaction_history, t)

\* C1: in every reachable state balance >= 0.
C1_BalanceNonNegative == FGe(balance, Fin(0))

\* C2: Blocked is sticky: once pin_attempts equals max_pin_attempts, no step
\* of any operation changes pin_attempts, and every validate_pin call, the
\* correct PIN included, returns false and changes no field of the account.
C2_BlockedSticky ==
    [][pin_attempts = max_pin_attempts =>
          /\ pin_attempts' = max_pin_attempts
          /\ Calls("validate_pin") => (ret' = FALSE /\ acct' = acct)]_vars

C2_Witness ==
    /\ pin_attempts = max_pin_attempts
    /\ call.op = "validate_pin"
    /\ call.pin = pin
    /\ pin # InitPin
    /\ ret = FALSE

\* C3: a validate_pin call with a wrong PIN takes pin_attempts 0 to 1 and 1
\* to 2, both Active, and the third one takes 2 to 3, Blocked, each returning
\* false and leaving the pin alone; a call with the correct PIN made when
\* Blocked returns false.
C3_ThreeStrikes ==
    [][Calls("validate_pin") =>
          /\ (call'.pin # pin /\ pin_attempts \in {0, 1}) =>
                 /\ pin_attempts' = pin_attempts + 1
                 /\ ~IsBlocked(pin_attempts')
                 /\ ret' = FALSE
                 /\ pin' = pin
          /\ (call'.pin # pin /\ pin_attempts = 2) =>
                 /\ pin_attempts' = 3
                 /\ IsBlocked(pin_attempts')
                 /\ ret' = FALSE
                 /\ pin' = pin
          /\ (call'.pin = pin /\ pin_attempts = 3) =>
                 /\ ret' = FALSE
                 /\ pin_attempts' = 3]_vars

C3_Witness ==
    /\ pin_attempts = 3
    /\ pin = InitPin
    /\ transaction_history = <<>>
    /\ call = [op |-> "validate_pin", pin |-> InitPin]
    /\ ret = FALSE

\* C4: when the account is not Blocked, validate_pin with the current pin
\* returns true and sets pin_attempts to 0, and with any other input returns
\* false and adds exactly 1 to pin_attempts; nothing else changes.
C4_ValidateActive ==
    [][(Calls("validate_pin") /\ pin_attempts < max_pin_attempts) =>
          /\ call'.pin = pin => (ret' = TRUE /\ pin_attempts' = 0)
          /\ call'.pin # pin => (ret' = FALSE /\ pin_attempts' = pin_attempts + 1)
          /\ UNCHANGED <<card_number, pin, balance, transaction_history>>]_vars

C4_Witness ==
    /\ call.op = "validate_pin"
    /\ call.pin = pin
    /\ ret = TRUE
    /\ pin_attempts = 0

\* C5: in every reachable state 0 <= pin_attempts <= max_pin_attempts.
C5_AttemptsInRange == pin_attempts \in 0..max_pin_attempts

C5_Witness ==
    /\ pin_attempts = max_pin_attempts
    /\ call.op = "validate_pin"
    /\ call.pin # pin

\* C6: deposit(a) returns true exactly when a > 0, and then the new balance
\* is the old balance + a and exactly one Deposit record with amount a and
\* the new balance is appended at the end of the history.
C6_Deposit ==
    [][Calls("deposit") =>
          /\ ret' = Positive(Arg)
          /\ ret' =>
                 /\ balance' = FAdd(balance, Arg)
                 /\ IsFinite(balance) /\ IsFinite(Arg) => balance' = Fin(balance.v + Arg.v)
                 /\ AppendedOne([type |-> <<"Deposit">>, amount |-> Arg, balance |-> balance'])]_vars

C6_Witness ==
    /\ call.op = "deposit"
    /\ ret = TRUE
    /\ balance = Fin(InitBalance + 1000)
    /\ transaction_history[Len(transaction_history)] =
           [type |-> <<"Deposit">>, amount |-> Fin(1000), balance |-> Fin(InitBalance + 1000)]

\* C7: withdraw(a) returns true exactly when 0 < a <= balance, and then the
\* new balance is the old balance - a and one Withdrawal record with amount
\* -a is appended; otherwise it returns false and changes nothing.
\* Withdrawing the whole balance succeeds and leaves balance 0.
C7_Withdraw ==
    [][Calls("withdraw") =>
          /\ ret' = (Positive(Arg) /\ FLe(Arg, balance))
          /\ ret' =>
                 /\ balance' = FSub(balance, Arg)
                 /\ AppendedOne([type |-> <<"Withdrawal">>, amount |-> FNeg(Arg), balance |-> balance'])
          /\ ~ret' => acct' = acct
          /\ (Positive(Arg) /\ Arg = balance) => (ret' /\ balance' = Fin(0))]_vars

\* C8: transfer(amount, target) returns what withdraw(amount) returns from
\* the same state and leaves the balance withdraw(amount) leaves, for every
\* target; the target appears only in the type of the record.
C8_TransferAsWithdraw ==
    [][Calls("transfer") =>
          /\ ret' = WithdrawGuard(Arg)
          /\ balance' = IF WithdrawGuard(Arg) THEN WithdrawBalance(Arg) ELSE balance
          /\ ret' => AppendedOne([type |-> <<"Transfer to ">> \o call'.target,
                                  amount |-> FNeg(Arg), balance |-> balance'])
          /\ ~ret' => acct' = acct]_vars

C8_Witness ==
    /\ call.op = "transfer"
    /\ call.target = <<>>
    /\ ret = TRUE
    /\ balance = Fin(0)

\* C9: change_pin(new) succeeds iff new is exactly 4 characters, all decimal
\* digits, and pin is exactly 4 decimal digits in every reachable state.
C9_ChangePin ==
    /\ Len(pin) = 4 /\ AllDecimal(pin)
    /\ call.op = "change_pin" => (ret = (Len(call.pin) = 4 /\ AllDecimal(call.pin)))

\* C10: every successful deposit, withdraw or transfer appends exactly one
\* record, whose balance is the account balance right after the operation,
\* and no step of any operation modifies or removes an existing record.
C10_HistoryAppendOnly ==
    [][/\ (call'.op \in {"deposit", "withdraw", "transfer"} /\ ret') =>
              /\ Len(transaction_history') = Len(transaction_history) + 1
              /\ transaction_history'[Len(transaction_history')].balance = balance'
       /\ Len(transaction_history') >= Len(transaction_history)
       /\ SubSeq(transaction_history', 1, Len(transaction_history)) = transaction_history]_vars

C10_Witness ==
    /\ Len(transaction_history) >= 2
    /\ call.op = "withdraw"
    /\ ret = TRUE
    /\ transaction_history[Len(transaction_history)].balance = balance
    /\ transaction_history[1].type = <<"Deposit">>

RECURSIVE SumAmounts(_)
SumAmounts(h) ==
    IF h = <<>> THEN Fin(0)
    ELSE FAdd(SumAmounts(SubSeq(h, 1, Len(h) - 1)), h[Len(h)].amount)

C20_ChangePinFrame ==
    [][/\ Calls("change_pin") =>
              /\ pin_attempts' = pin_attempts
              /\ balance' = balance
              /\ ret' => pin' = call'.pin
       /\ (call.op = "change_pin" /\ ret /\ Calls("validate_pin") /\ pin_attempts < max_pin_attempts) =>
              /\ call'.pin = call.pin => (ret' /\ pin_attempts' = 0)
              /\ call'.pin # call.pin => (~ret' /\ pin_attempts' = pin_attempts + 1)]_vars

C20_Witness ==
    /\ call = [op |-> "validate_pin", pin |-> InitPin]
    /\ ret = FALSE
    /\ pin = <<"9", "9", "9", "9">>
    /\ pin_attempts = 3
    /\ Len(transaction_history) = 1
    /\ transaction_history[1].type = <<"PIN Change">>

\* the statement line l shows the transaction t
Shows(l, t) == l.type = t.type /\ l.balance = t.balance /\ l.amount = FAbs(t.amount)

\* C12: the mini statement shows at most 5 entries; they are the most recent
\* entries of the history, the latest one included, oldest of the window
\* first.
C12_MiniStatementRecent ==
    call.op = "print_mini_statement" =>
        LET h == transaction_history
            n == Len(statement)
        IN  /\ n <= 5
            /\ n <= Len(h)
            /\ h # <<>> => n >= 1
            /\ \A i \in 1..n : Shows(statement[i], h[Len(h) - n + i])

C12_Witness ==
    /\ call.op = "print_mini_statement"
    /\ Len(transaction_history) = 6
    /\ Len(statement) = 5
    /\ statement[5].type = <<"PIN Change">>
    /\ transaction_history[1].type = <<"Deposit">>
    /\ statement[1].type = <<"Withdrawal">>

\* C13 as stated: the statement is the last 5 entries in chronological
\* order, and is empty when the history has fewer than 5 entries.
C13_EmptyWhenShorter ==
    call.op = "print_mini_statement" =>
        LET h == transaction_history
        IN  /\ Len(h) >= 5 =>
                /\ Len(statement) = 5
                /\ \A i \in 1..5 : Shows(statement[i], h[Len(h) - 5 + i])
            /\ Len(h) < 5 => statement = <<>>

\* C13 as amended: the statement is the last 5 entries in chronological
\* order, and is the whole history, in chronological order, when the history
\* has fewer than 5 entries.
C13_WholeWhenShorter ==
    call.op = "print_mini_statement" =>
        LET h == transaction_history
        IN  /\ Len(h) >= 5 =>
                /\ Len(statement) = 5
                /\ \A i \in 1..5 : Shows(statement[i], h[Len(h) - 5 + i])
            /\ Len(h) < 5 =>
                /\ Len(statement) = Len(h)
                /\ \A i \in 1..Len(h) : Shows(statement[i], h[i])

C13_Witness ==
    /\ call.op = "print_mini_statement"
    /\ Len(transaction_history) = 3
    /\ Len(statement) = 3
    /\ statement[1].type = <<"Transfer to ">>
    /\ statement[3].balance = Fin(0)

\* the positions of main() inside the menu loop
MenuLoop ==
    {"menu", "pause", "deposit_amount", "withdraw_amount", "transfer_target",
     "transfer_amount", "new_pin"}

\* the message m is among those the step printed
Printed(m) == \E i \in 1..Len(out') : out'[i] = m

LockoutMessage == "Card blocked. Please contact customer support."

\* C14: in the authentication loop a failed validate_pin that leaves the
\* account Blocked prints the lockout message and ends the session, the menu
\* is not shown and no step follows the end; a failed validate_pin that
\* leaves the account Active is followed by the PIN prompt.
C14_LockoutEndsSession ==
    [][/\ (pc = "enter_pin" /\ Calls("validate_pin") /\ ~ret') =>
              /\ pin_attempts' >= max_pin_attempts =>
                     (pc' = "done" /\ Printed(LockoutMessage))
              /\ pin_attempts' < max_pin_attempts =>
                     (pc' = "enter_pin" /\ ~Printed(LockoutMessage))
       /\ pc # "done"]_vars

C14_Witness ==
    /\ pc = "done"
    /\ pin_attempts = max_pin_attempts
    /\ call.op = "validate_pin"
    /\ ~ret
    /\ out[Len(out)] = LockoutMessage

\* C15: in the menu loop every deposit, withdraw, transfer or PIN change
\* whose guard is violated is reported: the step that makes the refused call
\* prints a message before the menu comes back.
C15_FailureReported ==
    [][(pc \in {"deposit_amount", "withdraw_amount", "transfer_amount", "new_pin"}
            /\ pc' = "pause" /\ ~ret') =>
           out' # <<>>]_vars

\* C16: from the menu every selection other than exit stays in the menu
\* loop, an unrecognised option and a refused operation included, and the
\* pause that ends it returns to the menu; exit ends the session; after the
\* end no step follows, and once past the PIN prompt main never returns to
\* it, so validate_pin returns true at most once in a session.
C16_MenuLoop ==
    [][/\ (pc = "menu" /\ entered' # <<"7">>) => pc' \in MenuLoop \ {"menu"}
       /\ (pc = "menu" /\ entered' \notin {<<"1">>, <<"2">>, <<"3">>, <<"4">>, <<"5">>, <<"6">>, <<"7">>}) =>
              pc' = "pause"
       /\ (pc \in MenuLoop \ {"menu", "pause"}) => pc' \in MenuLoop \ {"menu"}
       /\ pc = "pause" => pc' = "menu"
       /\ (pc = "menu" /\ entered' = <<"7">>) => pc' = "done"
       /\ pc # "done"
       /\ pc # "enter_pin" => pc' # "enter_pin"
       /\ pc = "enter_pin" => (ret' <=> pc' = "menu")]_vars

C16_Witness ==
    /\ pc = "menu"
    /\ entered = <<>>
    /\ call.op = "withdraw"
    /\ ~ret
    /\ Len(transaction_history) > 0

\* lines that are not numbers
NotNumbers == {<<"a", "b", "c">>, <<>>}

\* C17: a line that does not parse as a number, entered at the amount prompt
\* of deposit, withdraw or transfer, leaves main at that same prompt: no
\* method is called, the account and the target are untouched and the only
\* message is the invalid-input one; a line that parses ends the prompt with
\* the call of the operation.
C17_AmountReprompt ==
    [][(pc \in AmountPrompts) =>
          /\ entered' \in NotNumbers =>
                 /\ pc' = pc
                 /\ acct' = acct
                 /\ call' = call
                 /\ ret' = ret
                 /\ target' = target
                 /\ statement' = statement
                 /\ out' = <<"Invalid input. Please enter a number.">>
          /\ entered' \notin NotNumbers =>
                 /\ pc' = "pause"
                 /\ pc = "deposit_amount" => Calls("deposit")
                 /\ pc = "withdraw_amount" => Calls("withdraw")
                 /\ pc = "transfer_amount" => (Calls("transfer") /\ call'.target = target)]_vars

C17_Witness ==
    /\ pc = "transfer_amount"
    /\ entered = <<"a", "b", "c">>
    /\ out = <<"Invalid input. Please enter a number.">>
    /\ target = <<"4", "2">>
    /\ call.op = "validate_pin"

\* the account has its initial balance, pin and history and no statement
\* was printed
Untouched ==
    /\ balance = Fin(InitBalance)
    /\ pin = InitPin
    /\ transaction_history = <<>>
    /\ statement = <<>>
    /\ call.op \in {"none", "validate_pin"}

\* C18: in every state of the authentication loop no deposit, withdraw,
\* transfer, change_pin or mini statement has been executed and balance, pin
\* and history have their initial values; a session that ends Blocked ends
\* with them too.
C18_NothingBeforeAuth ==
    /\ pc = "enter_pin" => Untouched
    /\ (pc = "done" /\ pin_attempts >= max_pin_attempts) => Untouched
    /\ call.op \notin {"none", "validate_pin"} => (pc \in MenuLoop \cup {"done"} /\ pin_attempts = 0)

C18_Witness ==
    /\ pc = "done"
    /\ pin_attempts >= max_pin_attempts
    /\ entered = <<"1", "2", "a", "4">>
    /\ balance = Fin(InitBalance)
    /\ transaction_history = <<>>

====
